---- MODULE Spec2Model ----
(***************************************************************************)
(* Model of transportation_containmentline_processing.py: the roads /      *)
(* rails / trails deduplication and width attribution script.              *)
(*                                                                         *)
(* Geometry is discretised: a line geometry is a set of unit cells laid    *)
(* out along one axis, every cell 50 m long.  Two lines overlap exactly    *)
(* where they share a cell.  A feature class is a sequence of rows (its    *)
(* OBJECTID order); a row is a record of its fields plus geom.  A nullable *)
(* field holds None (<< >>) or Some(v) (<<v>>).  Widths are kept in tenths *)
(* of a metre so that 1.5 and 0.5 stay integers.                           *)
(*                                                                         *)
(* Every arcpy call inside a try block is one step that either succeeds    *)
(* or raises; a raise transfers control to the except clause of the        *)
(* enclosing phase.  Calls made inside an except clause are taken to       *)
(* succeed (an exception there is not handled by the script at all).       *)
(***************************************************************************)
EXTENDS Integers, Sequences, FiniteSets, TLC

VARIABLES pc, status, inputs, orig, scratch, layers, output, IncName, errors, consumed

vars == <<pc, status, inputs, orig, scratch, layers, output, IncName, errors, consumed>>

\* ------------------------------------------------------------------ bounds
\* Largest number of line features over the four transportation inputs.
MaxFeat == 2

\* ----------------------------------------------------------- small helpers
None == << >>

Some(v) == <<v>>

Cells == {1, 2}

Geoms == (SUBSET Cells) \ {{}}

Metres(n) == n * 50

Abs(n) == IF n < 0 THEN -n ELSE n

RECURSIVE SetToSeq(_)
SetToSeq(S) ==
    IF S = {} THEN << >>
    ELSE LET x == CHOOSE y \in S : TRUE IN <<x>> \o SetToSeq(S \ {x})

RECURSIVE SubsetsOfSize(_, _)
SubsetsOfSize(S, n) ==
    IF n = 0 THEN {{}}
    ELSE UNION {{s \cup {x} : x \in S \ s} : s \in SubsetsOfSize(S, n - 1)}

Range(s) == {s[i] : i \in DOMAIN s}

AllGeom(fc) == UNION {fc[i].geom : i \in DOMAIN fc}

\* A workspace is a function from the names of the feature classes in it.
Put(ws, name, fc) == [n \in (DOMAIN ws) \cup {name} |-> IF n = name THEN fc ELSE ws[n]]

\* A row with one field set (added when absent).
WithField(f, field, v) == [k \in (DOMAIN f) \cup {field} |-> IF k = field THEN v ELSE f[k]]

\* ----------------------------------------------------- user parameters
\* arcpy.GetParameterAsText(5): buffer distance in metres (tool default 50).
USFS_Road_Buff == 50

\* arcpy.GetParameterAsText(6): shortest retained line in metres (default 100).
USFS_RoadLineLengthToDel == 100

\* "1 Kilometers" of the perimeter buffer, in metres.
AOI_Buff == 1000

\* ------------------------------------------------------- input domains
TnmfrcVals == {Some(1), Some(5), Some(7), Some(10), None}

TrailTypes == {Some(<<"Water", "Trail">>), Some(<<"Terra", "Trail">>)}

OhvVals == {Some("Y"), None}

LaneVals == {Some(<<"1">>), Some(<<"2", " ", "-">>), Some(<<"A", "2">>), None}

RoadUniverse == [geom : Geoms, tnmfrc : TnmfrcVals]

TrailUniverse == [geom : Geoms, trailtype : TrailTypes, ohvover50inches : OhvVals]

RailUniverse == [geom : Geoms]

RoadCoreUniverse == [geom : Geoms, LANES : LaneVals]

Sources == {"USGS_RailFeature", "USGS_TrailSegment", "USGS_RoadSegment", "RoadCore_FS"}

InputNames == Sources \cup {"userfireperimeters"}

IncidentNames == {<<"T", " ", "F">>}

\* What can be wrong with the inputs of one run: nothing, a missing input,
\* a perimeter without the incident-name field, or a perimeter without rows.
Defects == {"none", "no_field", "no_rows"} \cup InputNames

\* --------------------------------------------------- geoprocessing tools
\* arcpy.Exists
Exists(ws, name) == name \in DOMAIN ws

\* PairwiseBuffer(..., "ALL"): one dissolved polygon, every cell within dist
\* metres of a cell of the input.
PairwiseBuffer(fc, dist) ==
    LET g == {c \in Cells : \E x \in AllGeom(fc) : Metres(Abs(c - x)) <= dist}
    IN IF g = {} THEN << >> ELSE << [geom |-> g] >>

\* PairwiseClip: the part of every feature inside the clip polygons.
PairwiseClip(fc, clip) ==
    LET cut(f) == [f EXCEPT !.geom = @ \cap AllGeom(clip)]
        all == [i \in DOMAIN fc |-> cut(fc[i])]
    IN SelectSeq(all, LAMBDA f : f.geom # {})

RECURSIVE OrderPairs(_)
OrderPairs(S) ==
    IF S = {} THEN << >>
    ELSE LET p == CHOOSE q \in S : \A r \in S : q[1] < r[1] \/ (q[1] = r[1] /\ q[2] <= r[2])
         IN <<p>> \o OrderPairs(S \ {p})

\* PairwiseIntersect(a;b, ONLY_FID, output INPUT): for every pair of a
\* feature of a and a feature of b, the line they have in common.
PairwiseIntersect(a, b) ==
    LET pairs == {p \in (DOMAIN a) \X (DOMAIN b) : a[p[1]].geom \cap b[p[2]].geom # {}}
        ord == OrderPairs(pairs)
    IN [i \in DOMAIN ord |->
          [geom |-> a[ord[i][1]].geom \cap b[ord[i][2]].geom,
           FID_a |-> ord[i][1], FID_b |-> ord[i][2]]]

\* An erase that removes nothing from its input.
PairwiseErase_Keep(fc, erase) == fc

\* PairwiseErase: every feature minus the erase features; a feature that
\* is erased completely is not written.
PairwiseErase(fc, erase) ==
    LET cut(f) == [f EXCEPT !.geom = @ \ AllGeom(erase)]
        all == [i \in DOMAIN fc |-> cut(fc[i])]
    IN SelectSeq(all, LAMBDA f : f.geom # {})

\* RepairGeometry(DELETE_NULL): rows with a null geometry are deleted.
RepairGeometry(fc) == SelectSeq(fc, LAMBDA f : f.geom # {})

\* A row of a merge output: the mapped fields, null where the input lacks one.
Project(f, fields) ==
    [k \in fields \cup {"geom"} |-> IF k \in DOMAIN f THEN f[k] ELSE None]

RECURSIVE Concat(_)
Concat(fcs) == IF fcs = << >> THEN << >> ELSE Head(fcs) \o Concat(Tail(fcs))

\* management.Merge: the rows of the inputs one after the other.
Merge(fcs, fields) ==
    LET all == Concat(fcs) IN [i \in DOMAIN all |-> Project(all[i], fields)]

DissolveKey(f, fields) == [k \in fields |-> f[k]]

\* A dissolve that writes one row per input row.
PairwiseDissolve_PerRow(fc, fields) ==
    [i \in DOMAIN fc |-> Project(fc[i], fields)]

\* PairwiseDissolve(MULTI_PART): one multipart row per distinct combination
\* of the dissolve fields (null is a value like any other).
PairwiseDissolve(fc, fields) ==
    LET keys == SetToSeq({DissolveKey(fc[i], fields) : i \in DOMAIN fc})
        part(k) == UNION {fc[i].geom : i \in {j \in DOMAIN fc : DissolveKey(fc[j], fields) = k}}
    IN [n \in DOMAIN keys |->
          [x \in fields \cup {"geom"} |-> IF x = "geom" THEN part(keys[n]) ELSE keys[n][x]]]

\* management.AddField: a new nullable field.
AddField(fc, field) ==
    [i \in DOMAIN fc |-> IF field \in DOMAIN fc[i] THEN fc[i] ELSE WithField(fc[i], field, None)]

\* LENGTH_GEODESIC in metres.
LengthGeodesic(f) == Metres(Cardinality(f.geom))

\* management.CalculateGeometryAttributes
CalculateGeometryAttributes(fc, field) ==
    [i \in DOMAIN fc |-> WithField(fc[i], field, Some(LengthGeodesic(fc[i])))]

\* The where clauses of the three feature layers.
Contains(text, word) == \E i \in DOMAIN text : text[i] = word

Matches(where, f) ==
    CASE where = "tnmfrc IN (7, 8)" -> f.tnmfrc # None /\ f.tnmfrc[1] \in {7, 8}
      [] where = "trailtype LIKE '%Water%'" -> f.trailtype # None /\ Contains(f.trailtype[1], "Water")
      [] where = "LineLength < " -> f.LineLength # None /\ f.LineLength[1] < USFS_RoadLineLengthToDel

\* A DeleteFeatures that deletes nothing (a selection that matches no row).
DeleteFeatures_None(fc, where) == fc

\* The rows management.DeleteFeatures on a layer leaves in the layer's
\* source: the selected rows are deleted.
DeleteFeatures(fc, where) == SelectSeq(fc, LAMBDA f : ~Matches(where, f))

\* ------------------------------------------------------- code blocks
\* Widths in tenths of a metre.
Reclass_tnmfrc(tnmfrc) ==
    IF tnmfrc = Some(1) THEN Some(250)
    ELSE IF tnmfrc = Some(2) THEN Some(200)
    ELSE IF tnmfrc = Some(3) THEN Some(150)
    ELSE IF tnmfrc = Some(4) THEN Some(50)
    ELSE IF tnmfrc = Some(5) THEN Some(250)
    ELSE IF tnmfrc = Some(6) THEN Some(30)
    ELSE IF tnmfrc = Some(9) THEN Some(20)
    ELSE IF tnmfrc = None THEN None
    ELSE Some(10000)

Digits == {"0", "1", "2", "3", "4", "5", "6", "7", "8", "9"}

\* str(lanes): the text of a null is "None".
Str(lanes) == IF lanes = None THEN <<"N", "o", "n", "e">> ELSE lanes[1]

\* rcls: the loop returns while it looks at the first character.
rcls(lanes) ==
    LET s == Str(lanes)
    IN IF Len(s) = 0 THEN None
       ELSE IF s[1] \in Digits THEN Some(s[1]) ELSE None

Reclass_LaneWidth(LaneWidth) ==
    IF LaneWidth = Some("1") THEN Some(50)
    ELSE IF LaneWidth = Some("2") THEN Some(80)
    ELSE IF LaneWidth = Some("3") THEN Some(100)
    ELSE IF LaneWidth = Some("4") THEN Some(150)
    ELSE IF LaneWidth = Some("5") THEN Some(250)
    ELSE IF LaneWidth = None THEN Some(50)
    ELSE Some(10000)

Reclass_ohvover50inches(ohv) ==
    IF ohv = Some("Y") THEN Some(15)
    ELSE IF ohv = None THEN Some(5)
    ELSE Some(5)

\* The value of a CalculateField expression on one row.
Expression(expr, f) ==
    CASE expr = "Reclass(!tnmfrc!)" -> Reclass_tnmfrc(f.tnmfrc)
      [] expr = "rcls(!LANES!)" -> rcls(f.LANES)
      [] expr = "Reclass(!LaneWidth!)" -> Reclass_LaneWidth(f.LaneWidth)
      [] expr = "Reclass(!ohvover50inches!)" -> Reclass_ohvover50inches(f.ohvover50inches)
      [] expr = "8" -> Some(80)
      [] expr \in {"USGS_Rail", "USGS_Trail", "USGS_Road", "USFS_Road"} -> Some(expr)

\* management.CalculateField with a Python expression.
CalculateField(fc, field, expr) ==
    [i \in DOMAIN fc |-> WithField(fc[i], field, Expression(expr, fc[i]))]

\* IncName.replace(" ", "")
RemoveSpaces(s) == SelectSeq(s, LAMBDA c : c # " ")


\* ------------------------------------------------------- the script
\* The calls of the preprocessing try block (lines 87-181), in order.
Phase1Stages ==
    <<"ReadIncName", "BufferPerims",
      "MakeLayerRoadTnlWtr", "DeleteRoadTnlWtr", "MakeLayerTrailWater", "DeleteTrailWater",
      "ClipRail", "ClipTrail", "ClipRoad", "ClipRoadCore",
      "IntersectTrailsRoads", "EraseTrails", "MergeTrailsRoads",
      "IntersectUSGS_USFS", "EraseUSFS", "RepairTrails", "RepairUSFS",
      "MergeAll", "BufferAll", "Cleanup159", "EraseBuff",
      "AddLineLength", "CalcLineLength", "MakeLayerSmallLines", "DeleteSmallLines",
      "Cleanup177">>

\* The attribution block with the trail AddField moved behind the final dissolve.
Phase2Stages_AddFieldLast ==
    <<"DissolveRoad", "CalcWidthRoad", "CalcLaneWidth", "DissolveUSFS", "CalcWidthUSFS",
      "CalcWidthRail", "DissolveRail", "CalcWidthTrail", "DissolveTrail",
      "CalcSourceRail", "CalcSourceTrail", "CalcSourceRoad", "CalcSourceUSFS",
      "MergeFinal", "DissolveFinal", "AddWidthTrail", "Cleanup276", "Finished">>

\* The calls of the width attribution try block (lines 196-282), in order.
Phase2Stages ==
    <<"DissolveRoad", "CalcWidthRoad", "CalcLaneWidth", "DissolveUSFS", "CalcWidthUSFS",
      "CalcWidthRail", "DissolveRail", "AddWidthTrail", "CalcWidthTrail", "DissolveTrail",
      "CalcSourceRail", "CalcSourceTrail", "CalcSourceRoad", "CalcSourceUSFS",
      "MergeFinal", "DissolveFinal", "Cleanup276", "Finished">>

Stages == Phase1Stages \o Phase2Stages

Idx(stage) == CHOOSE i \in DOMAIN Stages : Stages[i] = stage

\* The stage the script is at (or failed at).
Stage == Stages[pc]

InPreprocessing == pc <= Len(Phase1Stages)

\* The script has completed this call.
Past(stage) == status = "done" \/ pc > Idx(stage)

\* The five hand-written deletion lists.
fc_Delete_159 ==
    <<"Perims_10kmBuff", "USGS_Trails_Roads_Intersect", "USGS_TrailsRoads_Mrg",
      "AOIClp_TrailSegment", "USGS_USFS_TransInt">>

fc_Delete_177 ==
    <<"Perims_10kmBuff", "USGS_Trails_Roads_Intersect", "USGS_TrailsRoads_Mrg", "USGS_AllMrg",
      "USGS_AllMrg_Buffer", "AOI_Clp_RoadCore_FS", "AOIClp_TrailSegment", "USGS_USFS_TransInt",
      "USFS_Roads_USGS_Erased">>

\* The except list of the preprocessing phase without the last erase result.
fc_Delete_186_Short ==
    <<"Perims_10kmBuff", "USGS_Trails_Roads_Intersect", "USGS_TrailsRoads_Mrg", "USGS_AllMrg",
      "USGS_AllMrg_Buffer", "AOI_Clp_RoadCore_FS", "AOIClp_TrailSegment", "USGS_USFS_TransInt",
      "USFS_Roads_USGS_Erased", "AOI_Clp_Trails_RoadsErased", "AOIClp_RailFeature",
      "AOIClp_RoadSegment">>

fc_Delete_186 ==
    <<"Perims_10kmBuff", "USGS_Trails_Roads_Intersect", "USGS_TrailsRoads_Mrg", "USGS_AllMrg",
      "USGS_AllMrg_Buffer", "AOI_Clp_RoadCore_FS", "AOIClp_TrailSegment", "USGS_USFS_TransInt",
      "USFS_Roads_USGS_Erased", "AOI_Clp_Trails_RoadsErased", "AOIClp_RailFeature",
      "AOIClp_RoadSegment", "USFS_Roads_USGS_EraseBuff">>

fc_Delete_276 ==
    <<"AOI_Clp_Trails_Diss", "AOI_Clp_Trails_RoadsErased", "AOIClp_Rail_Diss",
      "AOIClp_RailFeature", "AOIClp_RoadSegment", "AOIClp_USGS_Road_TNMFRC_Diss",
      "USFS_Roads_Diss_ALL", "USFS_Roads_USGS_EraseBuff">>

fc_Delete_288 ==
    <<"AOI_Clp_Trails_Diss", "AOI_Clp_Trails_RoadsErased", "AOIClp_Rail_Diss",
      "AOIClp_RailFeature", "AOIClp_RoadSegment", "AOIClp_USGS_Road_TNMFRC_Diss",
      "trans_usgs_usfs_containment", "USFS_Roads_Diss_ALL", "USFS_Roads_USGS_EraseBuff">>

\* for fc in fc_Delete: if arcpy.Exists(fc_path): arcpy.Delete_management(fc_path)
DeleteLoop(ws, list) == [n \in (DOMAIN ws) \ Range(list) |-> ws[n]]

\* The name of the output feature class (the timestamp is left out).
OutputName(inc) == <<"transprtn_cntmnt_">> \o inc

\* A feature class holds a line shorter than the length threshold.
HasShort(fc) == \E i \in DOMAIN fc : LengthGeodesic(fc[i]) < USFS_RoadLineLengthToDel

\* ------------------------------------------------------------ Init
PerimeterRows(defect) ==
    IF defect = "no_rows" THEN {<< >>}
    ELSE IF defect = "no_field" THEN {<< [geom |-> {1}] >>}
    ELSE {<< [geom |-> {1}, attr_IncidentName |-> n] >> : n \in IncidentNames}

InputSet(defect, perim, rail, trail, road, core) ==
    LET all == [n \in InputNames |->
                  CASE n = "userfireperimeters" -> perim
                    [] n = "USGS_RailFeature" -> SetToSeq(rail)
                    [] n = "USGS_TrailSegment" -> SetToSeq(trail)
                    [] n = "USGS_RoadSegment" -> SetToSeq(road)
                    [] n = "RoadCore_FS" -> SetToSeq(core)]
    IN [n \in InputNames \ {defect} |-> all[n]]

Init ==
    /\ pc = 1
    /\ status = "running"
    /\ \E defect \in Defects :
       \E nRoad \in 0..MaxFeat :
       \E nTrail \in 0..(MaxFeat - nRoad) :
       \E nCore \in 0..(MaxFeat - nRoad - nTrail) :
       \E nRail \in 0..(MaxFeat - nRoad - nTrail - nCore) :
       \E road \in SubsetsOfSize(RoadUniverse, nRoad) :
       \E trail \in SubsetsOfSize(TrailUniverse, nTrail) :
       \E core \in SubsetsOfSize(RoadCoreUniverse, nCore) :
       \E rail \in SubsetsOfSize(RailUniverse, nRail) :
       \E perim \in PerimeterRows(defect) :
          /\ defect = "USGS_RoadSegment" => nRoad = 0
          /\ defect = "USGS_TrailSegment" => nTrail = 0
          /\ defect = "RoadCore_FS" => nCore = 0
          /\ defect = "USGS_RailFeature" => nRail = 0
          /\ inputs = InputSet(defect, perim, rail, trail, road, core)
    /\ orig = inputs
    /\ scratch = << >>
    /\ layers = << >>
    /\ output = << >>
    /\ IncName = None
    /\ errors = << >>
    /\ consumed = {}

\* ------------------------------------------------------ control flow
At(stage) == status = "running" /\ Stage = stage

Advance == pc' = pc + 1 /\ status' = "running"

\* An exception: control goes to the except clause of the enclosing try.
Raise == pc' = pc /\ status' = "except"

Uses(names, tool) ==
    {[fc |-> n, stage |-> Stage, tool |-> tool, short |-> HasShort(scratch[n])] :
        n \in names \cap {"AOI_Clp_Trails_RoadsErased", "USFS_Roads_USGS_Erased",
                          "USFS_Roads_USGS_EraseBuff"}}

\* A tool that reads feature classes of the scratch workspace and writes
\* one: it raises when one of its inputs does not exist.
ScratchTool(stage, tool, reads, name, result) ==
    /\ At(stage)
    /\ IF reads \subseteq DOMAIN scratch
       THEN /\ scratch' = Put(scratch, name, result)
            /\ consumed' = consumed \cup Uses(reads, tool)
            /\ Advance
       ELSE /\ Raise
            /\ UNCHANGED <<scratch, consumed>>
    /\ UNCHANGED <<inputs, orig, layers, output, IncName, errors>>

\* A tool that reads one of the script's input parameters.
InputTool(stage, reads, input, name, result) ==
    /\ At(stage)
    /\ IF Exists(inputs, input) /\ reads \subseteq DOMAIN scratch
       THEN /\ scratch' = Put(scratch, name, result)
            /\ Advance
       ELSE /\ Raise
            /\ UNCHANGED scratch
    /\ UNCHANGED <<inputs, orig, layers, output, IncName, errors, consumed>>


\* --------------------------------------------- preprocessing (87-181)
\* Lines 90-98: the incident name is read from the first perimeter row; a
\* missing perimeter only adds an error message and the script goes on.
ReadIncName ==
    /\ At("ReadIncName")
    /\ IF Exists(inputs, "userfireperimeters")
       THEN LET rows == inputs["userfireperimeters"]
            IN IF \E i \in DOMAIN rows : "attr_IncidentName" \notin DOMAIN rows[i]
               THEN Raise /\ UNCHANGED <<IncName, errors>>
               ELSE IF rows = << >>
               THEN Raise /\ UNCHANGED <<IncName, errors>>
               ELSE /\ IncName' = Some(RemoveSpaces(rows[1].attr_IncidentName))
                    /\ Advance
                    /\ UNCHANGED errors
       ELSE /\ errors' = Append(errors, "Input perimeter not found")
            /\ Advance
            /\ UNCHANGED IncName
    /\ UNCHANGED <<inputs, orig, scratch, layers, output, consumed>>

\* Line 104
BufferPerims ==
    InputTool("BufferPerims", {}, "userfireperimeters", "Perims_10kmBuff",
              PairwiseBuffer(inputs["userfireperimeters"], AOI_Buff))

\* management.MakeFeatureLayer: a named selection on a source that stays in
\* place (the layer holds no rows of its own).
MakeFeatureLayer(stage, ws, source, name, where) ==
    /\ At(stage)
    /\ IF (ws = "inputs" /\ Exists(inputs, source)) \/ (ws = "scratch" /\ Exists(scratch, source))
       THEN /\ layers' = Put(layers, name, [ws |-> ws, source |-> source, where |-> where])
            /\ Advance
       ELSE /\ Raise
            /\ UNCHANGED layers
    /\ UNCHANGED <<inputs, orig, scratch, output, IncName, errors, consumed>>

\* management.DeleteFeatures on a layer: the rows go from the layer's source.
DeleteLayerFeatures(stage, name) ==
    /\ At(stage)
    /\ IF Exists(layers, name)
       THEN LET l == layers[name]
            IN /\ IF l.ws = "inputs"
                  THEN /\ inputs' = [inputs EXCEPT ![l.source] = DeleteFeatures(@, l.where)]
                       /\ UNCHANGED scratch
                  ELSE /\ scratch' = [scratch EXCEPT ![l.source] = DeleteFeatures(@, l.where)]
                       /\ UNCHANGED inputs
               /\ Advance
       ELSE /\ Raise
            /\ UNCHANGED <<inputs, scratch>>
    /\ UNCHANGED <<orig, layers, output, IncName, errors, consumed>>

\* Line 110
MakeLayerRoadTnlWtr ==
    MakeFeatureLayer("MakeLayerRoadTnlWtr", "inputs", "USGS_RoadSegment",
                     "usgs_trans_road_tnl_wtr", "tnmfrc IN (7, 8)")

\* Line 111
DeleteRoadTnlWtr == DeleteLayerFeatures("DeleteRoadTnlWtr", "usgs_trans_road_tnl_wtr")

\* Line 113
MakeLayerTrailWater ==
    MakeFeatureLayer("MakeLayerTrailWater", "inputs", "USGS_TrailSegment",
                     "usgs_trans_trail_water", "trailtype LIKE '%Water%'")

\* Line 114
DeleteTrailWater == DeleteLayerFeatures("DeleteTrailWater", "usgs_trans_trail_water")

\* Lines 118-121
ClipRail ==
    InputTool("ClipRail", {"Perims_10kmBuff"}, "USGS_RailFeature", "AOIClp_RailFeature",
              PairwiseClip(inputs["USGS_RailFeature"], scratch["Perims_10kmBuff"]))

ClipTrail ==
    InputTool("ClipTrail", {"Perims_10kmBuff"}, "USGS_TrailSegment", "AOIClp_TrailSegment",
              PairwiseClip(inputs["USGS_TrailSegment"], scratch["Perims_10kmBuff"]))

ClipRoad ==
    InputTool("ClipRoad", {"Perims_10kmBuff"}, "USGS_RoadSegment", "AOIClp_RoadSegment",
              PairwiseClip(inputs["USGS_RoadSegment"], scratch["Perims_10kmBuff"]))

ClipRoadCore ==
    InputTool("ClipRoadCore", {"Perims_10kmBuff"}, "RoadCore_FS", "AOI_Clp_RoadCore_FS",
              PairwiseClip(inputs["RoadCore_FS"], scratch["Perims_10kmBuff"]))

\* Line 125
IntersectTrailsRoads ==
    ScratchTool("IntersectTrailsRoads", "PairwiseIntersect",
                {"AOIClp_RoadSegment", "AOIClp_TrailSegment"}, "USGS_Trails_Roads_Intersect",
                PairwiseIntersect(scratch["AOIClp_RoadSegment"], scratch["AOIClp_TrailSegment"]))

\* Line 127
EraseTrails ==
    ScratchTool("EraseTrails", "PairwiseErase",
                {"AOIClp_TrailSegment", "USGS_Trails_Roads_Intersect"}, "AOI_Clp_Trails_RoadsErased",
                PairwiseErase(scratch["AOIClp_TrailSegment"], scratch["USGS_Trails_Roads_Intersect"]))

\* Line 130: the field map keeps permanent_identifier only (not modelled).
MergeTrailsRoads ==
    ScratchTool("MergeTrailsRoads", "Merge",
                {"AOIClp_RoadSegment", "AOI_Clp_Trails_RoadsErased"}, "USGS_TrailsRoads_Mrg",
                Merge(<<scratch["AOIClp_RoadSegment"], scratch["AOI_Clp_Trails_RoadsErased"]>>, {}))

\* Line 133
IntersectUSGS_USFS ==
    ScratchTool("IntersectUSGS_USFS", "PairwiseIntersect",
                {"USGS_TrailsRoads_Mrg", "AOI_Clp_RoadCore_FS"}, "USGS_USFS_TransInt",
                PairwiseIntersect(scratch["USGS_TrailsRoads_Mrg"], scratch["AOI_Clp_RoadCore_FS"]))

\* Line 135
EraseUSFS ==
    ScratchTool("EraseUSFS", "PairwiseErase",
                {"AOI_Clp_RoadCore_FS", "USGS_USFS_TransInt"}, "USFS_Roads_USGS_Erased",
                PairwiseErase(scratch["AOI_Clp_RoadCore_FS"], scratch["USGS_USFS_TransInt"]))

\* Lines 139-140
RepairTrails ==
    ScratchTool("RepairTrails", "RepairGeometry",
                {"AOI_Clp_Trails_RoadsErased"}, "AOI_Clp_Trails_RoadsErased",
                RepairGeometry(scratch["AOI_Clp_Trails_RoadsErased"]))

RepairUSFS ==
    ScratchTool("RepairUSFS", "RepairGeometry",
                {"USFS_Roads_USGS_Erased"}, "USFS_Roads_USGS_Erased",
                RepairGeometry(scratch["USFS_Roads_USGS_Erased"]))

\* Line 155: no field map, every field of every input is kept.
MergeAll ==
    ScratchTool("MergeAll", "Merge",
                {"AOI_Clp_Trails_RoadsErased", "AOIClp_RoadSegment", "AOIClp_RailFeature"},
                "USGS_AllMrg",
                Merge(<<scratch["AOI_Clp_Trails_RoadsErased"], scratch["AOIClp_RoadSegment"],
                        scratch["AOIClp_RailFeature"]>>,
                      {"trailtype", "ohvover50inches", "tnmfrc"}))

\* Line 156
BufferAll ==
    ScratchTool("BufferAll", "PairwiseBuffer", {"USGS_AllMrg"}, "USGS_AllMrg_Buffer",
                PairwiseBuffer(scratch["USGS_AllMrg"], USFS_Road_Buff))

\* A deletion loop of a try block: it runs to its end, or a
\* Delete_management raises after the names before it have been deleted.
Cleanup(stage, list) ==
    /\ At(stage)
    /\ \/ /\ scratch' = DeleteLoop(scratch, list)
          /\ Advance
       \/ \E k \in DOMAIN list :
             /\ Exists(scratch, list[k])
             /\ scratch' = DeleteLoop(scratch, SubSeq(list, 1, k - 1))
             /\ Raise
    /\ UNCHANGED <<inputs, orig, layers, output, IncName, errors, consumed>>

\* Lines 159-163
Cleanup159 == Cleanup("Cleanup159", fc_Delete_159)

\* Line 168
EraseBuff ==
    ScratchTool("EraseBuff", "PairwiseErase",
                {"USFS_Roads_USGS_Erased", "USGS_AllMrg_Buffer"}, "USFS_Roads_USGS_EraseBuff",
                PairwiseErase(scratch["USFS_Roads_USGS_Erased"], scratch["USGS_AllMrg_Buffer"]))

\* Line 171
AddLineLength ==
    ScratchTool("AddLineLength", "AddField",
                {"USFS_Roads_USGS_EraseBuff"}, "USFS_Roads_USGS_EraseBuff",
                AddField(scratch["USFS_Roads_USGS_EraseBuff"], "LineLength"))

\* Line 172
CalcLineLength ==
    ScratchTool("CalcLineLength", "CalculateGeometryAttributes",
                {"USFS_Roads_USGS_EraseBuff"}, "USFS_Roads_USGS_EraseBuff",
                CalculateGeometryAttributes(scratch["USFS_Roads_USGS_EraseBuff"], "LineLength"))

\* Line 173
MakeLayerSmallLines ==
    MakeFeatureLayer("MakeLayerSmallLines", "scratch", "USFS_Roads_USGS_EraseBuff",
                     "USFS_Roads_USGS_EraseBuff_SmallLinesToDelete", "LineLength < ")

\* Line 174
DeleteSmallLines ==
    DeleteLayerFeatures("DeleteSmallLines", "USFS_Roads_USGS_EraseBuff_SmallLinesToDelete")

\* Lines 177-181
Cleanup177 == Cleanup("Cleanup177", fc_Delete_177)


\* ------------------------------------------ width attribution (196-282)
InPlace(stage, tool, name, result) == ScratchTool(stage, tool, {name}, name, result)

\* Line 198
DissolveRoad ==
    ScratchTool("DissolveRoad", "PairwiseDissolve", {"AOIClp_RoadSegment"},
                "AOIClp_USGS_Road_TNMFRC_Diss",
                PairwiseDissolve(scratch["AOIClp_RoadSegment"], {"tnmfrc"}))

\* Lines 200-220
CalcWidthRoad ==
    InPlace("CalcWidthRoad", "CalculateField", "AOIClp_USGS_Road_TNMFRC_Diss",
            CalculateField(scratch["AOIClp_USGS_Road_TNMFRC_Diss"], "Width",
                           "Reclass(!tnmfrc!)"))

\* Lines 223-229
CalcLaneWidth ==
    InPlace("CalcLaneWidth", "CalculateField", "USFS_Roads_USGS_EraseBuff",
            CalculateField(scratch["USFS_Roads_USGS_EraseBuff"], "LaneWidth",
                           "rcls(!LANES!)"))

\* Line 231
DissolveUSFS ==
    ScratchTool("DissolveUSFS", "PairwiseDissolve", {"USFS_Roads_USGS_EraseBuff"},
                "USFS_Roads_Diss_ALL",
                PairwiseDissolve(scratch["USFS_Roads_USGS_EraseBuff"], {"LaneWidth"}))

\* Lines 235-249
CalcWidthUSFS ==
    InPlace("CalcWidthUSFS", "CalculateField", "USFS_Roads_Diss_ALL",
            CalculateField(scratch["USFS_Roads_Diss_ALL"], "Width",
                           "Reclass(!LaneWidth!)"))

\* Line 251: the expression "8"
CalcWidthRail ==
    InPlace("CalcWidthRail", "CalculateField", "AOIClp_RailFeature",
            CalculateField(scratch["AOIClp_RailFeature"], "Width", "8"))

\* Line 252
DissolveRail ==
    ScratchTool("DissolveRail", "PairwiseDissolve", {"AOIClp_RailFeature"}, "AOIClp_Rail_Diss",
                PairwiseDissolve(scratch["AOIClp_RailFeature"], {"Width"}))

\* Line 255
AddWidthTrail ==
    InPlace("AddWidthTrail", "AddField", "AOI_Clp_Trails_RoadsErased",
            AddField(scratch["AOI_Clp_Trails_RoadsErased"], "Width"))

\* Lines 257-263
CalcWidthTrail ==
    InPlace("CalcWidthTrail", "CalculateField", "AOI_Clp_Trails_RoadsErased",
            CalculateField(scratch["AOI_Clp_Trails_RoadsErased"], "Width",
                           "Reclass(!ohvover50inches!)"))

\* Line 265
DissolveTrail ==
    ScratchTool("DissolveTrail", "PairwiseDissolve", {"AOI_Clp_Trails_RoadsErased"},
                "AOI_Clp_Trails_Diss",
                PairwiseDissolve(scratch["AOI_Clp_Trails_RoadsErased"], {"Width"}))

\* Lines 267-270
CalcSourceRail ==
    InPlace("CalcSourceRail", "CalculateField", "AOIClp_Rail_Diss",
            CalculateField(scratch["AOIClp_Rail_Diss"], "Source", "USGS_Rail"))

CalcSourceTrail ==
    InPlace("CalcSourceTrail", "CalculateField", "AOI_Clp_Trails_Diss",
            CalculateField(scratch["AOI_Clp_Trails_Diss"], "Source", "USGS_Trail"))

CalcSourceRoad ==
    InPlace("CalcSourceRoad", "CalculateField", "AOIClp_USGS_Road_TNMFRC_Diss",
            CalculateField(scratch["AOIClp_USGS_Road_TNMFRC_Diss"], "Source",
                           "USGS_Road"))

CalcSourceUSFS ==
    InPlace("CalcSourceUSFS", "CalculateField", "USFS_Roads_Diss_ALL",
            CalculateField(scratch["USFS_Roads_Diss_ALL"], "Source", "USFS_Road"))

\* Line 272: the field map keeps Width and Source.
MergeFinal ==
    ScratchTool("MergeFinal", "Merge",
                {"USFS_Roads_Diss_ALL", "AOIClp_USGS_Road_TNMFRC_Diss", "AOI_Clp_Trails_Diss",
                 "AOIClp_Rail_Diss"},
                "trans_usgs_usfs_containment",
                Merge(<<scratch["USFS_Roads_Diss_ALL"], scratch["AOIClp_USGS_Road_TNMFRC_Diss"],
                        scratch["AOI_Clp_Trails_Diss"], scratch["AOIClp_Rail_Diss"]>>,
                      {"Width", "Source"}))

\* Line 273: the one call that writes to the output geodatabase.
DissolveFinal ==
    /\ At("DissolveFinal")
    /\ IF Exists(scratch, "trans_usgs_usfs_containment") /\ IncName # None
       THEN /\ output' = Put(output, OutputName(IncName[1]),
                             PairwiseDissolve(scratch["trans_usgs_usfs_containment"],
                                              {"Source", "Width"}))
            /\ Advance
       ELSE /\ Raise
            /\ UNCHANGED output
    /\ UNCHANGED <<inputs, orig, scratch, layers, IncName, errors, consumed>>

\* Lines 276-280
Cleanup276 == Cleanup("Cleanup276", fc_Delete_276)

\* Line 282: the closing message; the script ends.
Finished ==
    /\ At("Finished")
    /\ status' = "done"
    /\ UNCHANGED <<pc, inputs, orig, scratch, layers, output, IncName, errors, consumed>>

\* Any geoprocessing call can raise (invalid geometry, a lock, resource
\* exhaustion); it then leaves nothing behind.
ToolFails ==
    /\ status = "running"
    /\ Stage \notin {"Cleanup159", "Cleanup177", "Cleanup276", "Finished"}
    /\ Raise
    /\ UNCHANGED <<inputs, orig, scratch, layers, output, IncName, errors, consumed>>

\* ------------------------------------------------ the except clauses
\* Lines 183-184
PreprocessingExcept_AddError ==
    /\ status = "except" /\ InPreprocessing
    /\ errors' = Append(errors, "Error Preprocessing. Exiting.")
    /\ status' = "cleanup"
    /\ UNCHANGED <<pc, inputs, orig, scratch, layers, output, IncName, consumed>>

\* Lines 186-190
PreprocessingExcept_Cleanup ==
    /\ status = "cleanup" /\ InPreprocessing
    /\ scratch' = DeleteLoop(scratch, fc_Delete_186)
    /\ status' = "report"
    /\ UNCHANGED <<pc, inputs, orig, layers, output, IncName, errors, consumed>>

\* Lines 285-286
WidthExcept_AddError ==
    /\ status = "except" /\ ~InPreprocessing
    /\ errors' = Append(errors, "Error Attributing Width. Exiting.")
    /\ status' = "cleanup"
    /\ UNCHANGED <<pc, inputs, orig, scratch, layers, output, IncName, consumed>>

\* Lines 288-292
WidthExcept_Cleanup ==
    /\ status = "cleanup" /\ ~InPreprocessing
    /\ scratch' = DeleteLoop(scratch, fc_Delete_288)
    /\ status' = "report"
    /\ UNCHANGED <<pc, inputs, orig, layers, output, IncName, errors, consumed>>

\* Lines 191-192 and 293-294: report_error() and sys.exit()
report_error ==
    /\ status = "report"
    /\ status' = "exited"
    /\ UNCHANGED <<pc, inputs, orig, scratch, layers, output, IncName, errors, consumed>>

Next ==
    \/ ReadIncName \/ BufferPerims
    \/ MakeLayerRoadTnlWtr \/ DeleteRoadTnlWtr \/ MakeLayerTrailWater \/ DeleteTrailWater
    \/ ClipRail \/ ClipTrail \/ ClipRoad \/ ClipRoadCore
    \/ IntersectTrailsRoads \/ EraseTrails \/ MergeTrailsRoads
    \/ IntersectUSGS_USFS \/ EraseUSFS \/ RepairTrails \/ RepairUSFS
    \/ MergeAll \/ BufferAll \/ Cleanup159 \/ EraseBuff
    \/ AddLineLength \/ CalcLineLength \/ MakeLayerSmallLines \/ DeleteSmallLines
    \/ Cleanup177
    \/ DissolveRoad \/ CalcWidthRoad \/ CalcLaneWidth \/ DissolveUSFS \/ CalcWidthUSFS
    \/ CalcWidthRail \/ DissolveRail \/ AddWidthTrail \/ CalcWidthTrail \/ DissolveTrail
    \/ CalcSourceRail \/ CalcSourceTrail \/ CalcSourceRoad \/ CalcSourceUSFS
    \/ MergeFinal \/ DissolveFinal \/ Cleanup276 \/ Finished
    \/ ToolFails
    \/ PreprocessingExcept_AddError \/ PreprocessingExcept_Cleanup
    \/ WidthExcept_AddError \/ WidthExcept_Cleanup
    \/ report_error

Spec == Init /\ [][Next]_vars


\* ================================================================ claims

\* Every row of a feature class has a Width that is neither null nor negative.
HasWidths(name) ==
    \A i \in DOMAIN scratch[name] :
       LET f == scratch[name][i]
       IN "Width" \in DOMAIN f /\ f.Width # None /\ f.Width[1] >= 0

WidthAssignedAfter(stage, name) ==
    (Past(stage) /\ Exists(scratch, name)) => HasWidths(name)

\* C1 (as claimed): once the width reclassification of a source has run,
\* every feature of that source has a Width, never null and never negative,
\* whatever its classification value.
C1_WidthTotality ==
    /\ WidthAssignedAfter("CalcWidthRoad", "AOIClp_USGS_Road_TNMFRC_Diss")
    /\ WidthAssignedAfter("CalcWidthUSFS", "USFS_Roads_Diss_ALL")
    /\ WidthAssignedAfter("CalcWidthRail", "AOIClp_RailFeature")
    /\ WidthAssignedAfter("CalcWidthTrail", "AOI_Clp_Trails_RoadsErased")

NoOverlap(H, L) ==
    \A i \in DOMAIN H : \A j \in DOMAIN L : H[i].geom \cap L[j].geom = {}

AOI == PairwiseBuffer(inputs["userfireperimeters"], AOI_Buff)

\* C2: after each exact-duplicate removal no feature of the deduplicated
\* lower-priority output shares a piece of line with a feature of the
\* higher-priority collection, and the higher-priority collection is still
\* exactly what the clip (for the survey roads) or the merge (for the merged
\* survey roads and trails) wrote.
C2_PriorityInvariant ==
    /\ (Exists(scratch, "AOIClp_RoadSegment") /\ Exists(scratch, "AOI_Clp_Trails_RoadsErased"))
          => /\ NoOverlap(scratch["AOIClp_RoadSegment"], scratch["AOI_Clp_Trails_RoadsErased"])
             /\ scratch["AOIClp_RoadSegment"] = PairwiseClip(inputs["USGS_RoadSegment"], AOI)
    /\ (Exists(scratch, "USGS_TrailsRoads_Mrg") /\ Exists(scratch, "USFS_Roads_USGS_Erased"))
          => /\ NoOverlap(scratch["USGS_TrailsRoads_Mrg"], scratch["USFS_Roads_USGS_Erased"])
             /\ (Exists(scratch, "AOIClp_RoadSegment") /\ Exists(scratch, "AOI_Clp_Trails_RoadsErased"))
                   => scratch["USGS_TrailsRoads_Mrg"] =
                         Merge(<<scratch["AOIClp_RoadSegment"],
                                 scratch["AOI_Clp_Trails_RoadsErased"]>>, {})

\* C2 witness: the second removal has run on an agency road that coincided
\* with a survey feature, and part of the agency road is left.
C2_Witness ==
    /\ Exists(scratch, "USGS_USFS_TransInt") /\ scratch["USGS_USFS_TransInt"] # << >>
    /\ Exists(scratch, "USFS_Roads_USGS_Erased") /\ scratch["USFS_Roads_USGS_Erased"] # << >>
    /\ Exists(scratch, "USGS_TrailsRoads_Mrg")

\* C3: no two distinct features of the output feature class have the same
\* (Source, Width) pair, a null Width included.
C3_MergeKeyUnique ==
    \A n \in DOMAIN output :
       \A i \in DOMAIN output[n] : \A j \in DOMAIN output[n] :
          i # j => <<output[n][i].Source, output[n][i].Width>> #
                   <<output[n][j].Source, output[n][j].Width>>

\* C3 witness: the output is written and the merged feature class it was
\* dissolved from had more rows (two rows shared a key).
C3_Witness ==
    /\ Exists(scratch, "trans_usgs_usfs_containment")
    /\ \E n \in DOMAIN output :
          /\ Len(output[n]) >= 1
          /\ Len(scratch["trans_usgs_usfs_containment"]) > Len(output[n])

\* C4 (as claimed): the survey road and survey trail inputs hold exactly the
\* features they held when the run started.
C4_FilterOnCopy ==
    \A n \in {"USGS_RoadSegment", "USGS_TrailSegment"} :
       Exists(inputs, n) => inputs[n] = orig[n]

Failed == status \in {"except", "cleanup", "report", "exited"}

InputDefect ==
    \/ \E n \in InputNames : ~Exists(orig, n)
    \/ /\ Exists(orig, "userfireperimeters")
       /\ \E i \in DOMAIN orig["userfireperimeters"] :
             "attr_IncidentName" \notin DOMAIN orig["userfireperimeters"][i]

\* C6 (as claimed): with a missing input or a missing incident-name field no
\* processing stage is ever executed: nothing is written to the scratch
\* workspace, no layer is made and no input row is deleted.
C6_AbortBeforeProcessing ==
    InputDefect => (DOMAIN scratch = {} /\ DOMAIN layers = {} /\ inputs = orig)

\* C7 (as claimed): no merge, buffer or erase reads the result of an erase
\* that still holds a line shorter than the length threshold.
C7_PrunedBeforeUse ==
    \A u \in consumed :
       u.tool \in {"Merge", "PairwiseBuffer", "PairwiseErase"} => ~u.short

\* C7 (amended): the result of the buffer erase holds no line shorter than
\* the threshold when a stage after the pruner reads it.
C7_BufferErasePruned ==
    \A u \in consumed :
       (u.fc = "USFS_Roads_USGS_EraseBuff" /\ u.stage \notin {"AddLineLength", "CalcLineLength"})
          => ~u.short

\* C7 witness: an agency road shorter than the threshold came in, no survey
\* feature was there to erase it, and the lane-width dissolve has read the
\* pruned buffer-erase result with another agency road still in it.
C7_Witness ==
    /\ \E u \in consumed : u.fc = "USFS_Roads_USGS_EraseBuff" /\ u.stage = "DissolveUSFS"
    /\ Exists(orig, "RoadCore_FS") /\ HasShort(orig["RoadCore_FS"])
    /\ \A n \in Sources \ {"RoadCore_FS"} : Exists(orig, n) /\ orig[n] = << >>
    /\ Exists(scratch, "USFS_Roads_Diss_ALL") /\ scratch["USFS_Roads_Diss_ALL"] # << >>

\* C8 (as claimed): a run that reports an error has no output feature class.
C8_NoOutputOnError ==
    Failed => DOMAIN output = {}

\* C8 (amended): a run in which a call up to and including the final
\* dissolve raised has no output feature class.
C8_NoOutputUnlessLastCleanup ==
    (Failed /\ Stage # "Cleanup276") => DOMAIN output = {}

\* C8 witness: the final dissolve itself raised and the run has exited.
C8_Witness ==
    status = "exited" /\ Stage = "DissolveFinal" /\ DOMAIN output = {}

\* C9 (as claimed): a run that ends successfully leaves no feature class in
\* the scratch workspace.
C9_NoIntermediateLeft ==
    status = "done" => DOMAIN scratch = {}

RECURSIVE FirstDigitOf(_)
FirstDigitOf(s) ==
    IF s = << >> THEN None
    ELSE IF Head(s) \in Digits THEN Some(Head(s)) ELSE FirstDigitOf(Tail(s))

\* The first digit anywhere in a lane-count string; null for a null lane count.
FirstDigit(lanes) == IF lanes = None THEN None ELSE FirstDigitOf(lanes[1])

\* C10 (as claimed): LaneWidth is the first digit that occurs anywhere in the
\* lane-count string, and null only for a null lane count or a string
\* without a digit.
C10_FirstDigitAnywhere ==
    (Past("CalcLaneWidth") /\ Exists(scratch, "USFS_Roads_USGS_EraseBuff"))
       => \A i \in DOMAIN scratch["USFS_Roads_USGS_EraseBuff"] :
             LET f == scratch["USFS_Roads_USGS_EraseBuff"][i]
             IN "LaneWidth" \in DOMAIN f /\ f.LaneWidth = FirstDigit(f.LANES)

====
